---- MODULE Spec2Model ----
(***************************************************************************)
(* A model of src/train.py: the epoch loop of main(), the training and     *)
(* validation passes, the step-decay learning-rate schedule, the           *)
(* checkpoint files and the resume step.                                   *)
(*                                                                         *)
(* Numbers.  Losses and learning rates are floats in the program; here a   *)
(* loss is an integer number of tenths (0.5 is 5, the starting best loss   *)
(* 999 is 9990) and a learning rate an integer number of millionths        *)
(* (0.01 is 10000).  Model weights and the optimizer's momentum buffers    *)
(* are opaque tensors; each is modelled by the number of optimizer steps   *)
(* that produced it, so that two different tensors get different values.   *)
(* NaN losses are not modelled.                                            *)
(*                                                                         *)
(* Library semantics.  optim.lr_scheduler.StepLR, torch.save/torch.load,   *)
(* nn.Module.eval and Optimizer.load_state_dict are the PyTorch of the     *)
(* program's idiom (Variable(..., volatile=True), loss.data[0], i.e.       *)
(* torch <= 0.3): the scheduler's constructor leaves last_epoch = -1 and   *)
(* step() with no argument sets last_epoch + 1 and writes                  *)
(* base_lr * gamma ** (last_epoch // step_size) into the optimizer.        *)
(***************************************************************************)
EXTENDS Integers, Sequences, FiniteSets, TLC

\* ---------------------------------------------------------------- bounds
MaxEpochs  == 4      \* --epochs is drawn from 0..MaxEpochs
MaxBatches == 3      \* len(train_loader) is drawn from 1..MaxBatches
MaxValBatches == 2   \* len(val_dataloader) is drawn from 1..MaxValBatches
MaxRuns    == 2      \* processes started one after the other on one disk
ExtraEpochs == 2     \* the schedule runs are StepSize + 1 .. StepSize + ExtraEpochs epochs long

\* ------------------------------------------------------ program constants
StepSize      == 15      \* StepLR(step_size=15)
GammaDen      == 10      \* StepLR(gamma=0.1): gamma is 1 / GammaDen
InitBestLoss  == 9990    \* best_loss = 999, in tenths
InitStartEpoch == 0      \* start_epoch = 0
DefaultPrintFreq == 4    \* --print-freq default
DefaultLR     == 10000   \* --lr default 0.01, in millionths

\* Values the criterion can return for an epoch's validation loss, in tenths:
\* 0.2 .. 0.5, and 1000.0, a value above the starting best loss.
Losses == {2, 3, 4, 5, 10000}

\* The --resume argument: none, the rolling checkpoint, the best copy, or a
\* path at which there is no file.
ResumeArgs == {"", "checkpoint.pth.tar", "model_best.pth.tar", "nowhere.pth.tar"}

VARIABLES
    \* arguments of main and the process's environment
    num_epochs, print_freq, resume, learning_rate,
    train_len,        \* len(train_dataloader)
    valid_len,        \* len(val_dataloader)
    criterion,        \* the set of values the loss can take
    global_args,      \* TRUE iff the module-level name `args` is bound (script entry)
    \* the disk
    files,            \* [latest, best]: file contents, <<>> when there is no file
    \* locals of main
    pc, error, epoch, start_epoch, best_loss, checkpoint,
    model,            \* [weights, training]
    optimizer,        \* [lr, initial_lr, momentum_buffer]
    lr_scheduler,     \* [last_epoch, base_lr]
    valid_loss,       \* valid_metrics['valid_loss']
    \* locals of train / validation
    idx, log_iter,
    \* history
    run,              \* number of the process, 1-based
    losses,           \* validation losses of the epochs this process completed
    latest_writes,    \* torch.save calls of this process
    best_overwritten, \* whether the last save_checkpoint copied to the best file
    train_emits,      \* scalar_summary rounds of the current training pass
    valid_emits,      \* scalar_summary rounds of the current validation pass
    train_steps,      \* steps given to train_logger by this process, in order
    fresh_lr          \* fresh_lr[e+1]: the rate a run without resume used in epoch e

inputs == <<num_epochs, print_freq, learning_rate, train_len, valid_len, criterion, global_args>>
locals == <<pc, error, epoch, start_epoch, best_loss, checkpoint, model, optimizer,
            lr_scheduler, valid_loss, idx, log_iter>>
history == <<losses, latest_writes, best_overwritten, train_emits, valid_emits, train_steps>>
vars == <<inputs, resume, files, locals, run, history, fresh_lr>>

\* ------------------------------------------------------------ pure helpers
RECURSIVE Pow(_, _)
Pow(b, k) == IF k = 0 THEN 1 ELSE b * Pow(b, k - 1)

\* Python's min(a, b): b when b < a, otherwise a.
PyMin(a, b) == IF b < a THEN b ELSE a

\* `arch` of the record save_checkpoint is given.
Arch == "UNet"

\* torch.save of the dict main passes to save_checkpoint: the file holds the
\* key/value pairs in the dict's order.
torch_save(state) ==
    << <<"epoch", state.epoch>>, <<"arch", state.arch>>,
       <<"state_dict", state.state_dict>>, <<"best_loss", state.best_loss>>,
       <<"optimizer", state.optimizer>> >>

\* The value stored under `key` in a file written by torch_save.
Lookup(blob, key) == blob[CHOOSE i \in 1..Len(blob) : blob[i][1] = key][2]

\* torch.load: the dict read back from the file.
torch_load(blob) ==
    [epoch      |-> Lookup(blob, "epoch"),
     arch       |-> Lookup(blob, "arch"),
     state_dict |-> Lookup(blob, "state_dict"),
     best_loss  |-> Lookup(blob, "best_loss"),
     optimizer  |-> Lookup(blob, "optimizer")]

\* The file the --resume path names: the program's two files live in
\* ../checkpoints/; any other path holds no file.
FileAt(path) ==
    IF path = "checkpoint.pth.tar" THEN files.latest
    ELSE IF path = "model_best.pth.tar" THEN files.best
    ELSE <<>>

\* os.path.isfile(resume)
isfile(path) == FileAt(path) # <<>>

\* unet.UNet(): new weights, and a new nn.Module is in training mode.
UNet == [weights |-> 0, training |-> TRUE]

\* optim.SGD(model.parameters(), lr=learning_rate, ...), after StepLR's
\* constructor has set initial_lr in the parameter group.
SGD(lr) == [lr |-> lr, initial_lr |-> lr, momentum_buffer |-> 0]

\* A scheduler whose constructor leaves the first step taken (last_epoch = 0).
StepLR_stepped(opt) == [last_epoch |-> 0, base_lr |-> opt.initial_lr]

\* optim.lr_scheduler.StepLR(optimizer, step_size=15, gamma=0.1): base_lrs are
\* the optimizer's initial_lr, and last_epoch is -1 after the constructor.
StepLR(opt) == [last_epoch |-> -1, base_lr |-> opt.initial_lr]

\* StepLR.get_lr: base_lr * gamma ** (last_epoch // step_size)
get_lr(sched) == sched.base_lr \div Pow(GammaDen, sched.last_epoch \div StepSize)

\* _LRScheduler.step() with no argument.
scheduler_step(sched) == [sched EXCEPT !.last_epoch = @ + 1]

\* A resume that continues after the checkpointed epoch.
ResumeEpoch_next(ckpt) == ckpt.epoch + 1

\* start_epoch = checkpoint['epoch']
ResumeEpoch(ckpt) == ckpt.epoch

\* is_best = valid_metrics['valid_loss'] < best_loss
IsBest(loss, best) == loss < best

\* A best loss that follows the last epoch instead of the minimum.
NewBestLoss_last(loss, best) == loss

\* best_loss = min(valid_metrics['valid_loss'], best_loss)
NewBestLoss(loss, best) == PyMin(loss, best)

\* log_iter = len(loader)//logger.print_freq
LogIter(len, freq) == len \div freq

\* step = (epoch_num*logger.print_freq)+(idx/log_iter), taken only when
\* idx % log_iter == 0, so the quotient is exact.
LogStep(e, freq, i, li) == (e * freq) + (i \div li)

\* ------------------------------------------------------------------ states
\* The locals of main after lines 33-52, before the resume step.
FreshLocals ==
    /\ pc = "resume"
    /\ error = ""
    /\ epoch = InitStartEpoch
    /\ start_epoch = InitStartEpoch
    /\ best_loss = InitBestLoss
    /\ checkpoint = <<>>
    /\ model = UNet
    /\ optimizer = SGD(learning_rate)
    /\ lr_scheduler = StepLR(SGD(learning_rate))
    /\ valid_loss = 0
    /\ idx = 0
    /\ log_iter = 0

FreshHistory ==
    /\ losses = <<>>
    /\ latest_writes = 0
    /\ best_overwritten = FALSE
    /\ train_emits = 0
    /\ valid_emits = 0
    /\ train_steps = <<>>

InitWith(Epochs, Freqs, Lens, ValLens, Crit) ==
    /\ num_epochs \in Epochs
    /\ print_freq \in Freqs
    /\ train_len \in Lens
    /\ valid_len \in ValLens
    /\ criterion = Crit
    /\ learning_rate = DefaultLR
    /\ resume \in ResumeArgs
    /\ global_args \in BOOLEAN
    /\ files = [latest |-> <<>>, best |-> <<>>]
    /\ run = 1
    /\ fresh_lr = <<>>
    /\ FreshLocals
    /\ FreshHistory

\* Checkpointing: every loss sequence, one batch per pass.
Init == InitWith(0..MaxEpochs, {1, 2}, {1}, {1}, Losses)

\* Logging: every loader length and print frequency, one loss value.
InitLog == InitWith(0..MaxEpochs, 1..DefaultPrintFreq, 1..MaxBatches, 1..MaxValBatches, {5})

\* The schedule: runs long enough to pass the first decay, one loss value.
InitLR == InitWith((StepSize + 1)..(StepSize + ExtraEpochs), {1}, {1}, {1}, {5})

\* ----------------------------------------------------------------- actions
\* main, lines 54-66: optionally resume from a checkpoint.  The else branch
\* prints args.resume: `args` is a module-level name bound only when the file
\* runs as a script, so under any other entry the branch raises NameError.
Resume ==
    /\ pc = "resume"
    /\ IF resume # "" /\ isfile(resume)
       THEN LET ckpt == torch_load(FileAt(resume)) IN
            /\ checkpoint' = <<ckpt>>
            /\ start_epoch' = ResumeEpoch(ckpt)
            /\ epoch' = ResumeEpoch(ckpt)
            /\ best_loss' = ckpt.best_loss
            /\ model' = [model EXCEPT !.weights = ckpt.state_dict]
            /\ optimizer' = ckpt.optimizer
            /\ pc' = "loop"
            /\ error' = error
       ELSE /\ UNCHANGED <<checkpoint, start_epoch, epoch, best_loss, model, optimizer>>
            /\ IF resume # "" /\ ~global_args
               THEN pc' = "error" /\ error' = "NameError"
               ELSE pc' = "loop" /\ error' = error
    /\ UNCHANGED <<inputs, resume, files, lr_scheduler, valid_loss, idx, log_iter,
                   run, history, fresh_lr>>

\* main, line 89: for epoch in range(start_epoch, num_epochs), and lines
\* 110-111 when the range is exhausted.
LoopHead ==
    /\ pc = "loop"
    /\ pc' = IF epoch < num_epochs THEN "train_begin" ELSE "done"
    /\ UNCHANGED <<inputs, resume, files, error, epoch, start_epoch, best_loss,
                   checkpoint, model, optimizer, lr_scheduler, valid_loss, idx,
                   log_iter, run, history, fresh_lr>>

\* train, lines 128-133: the trackers, log_iter and scheduler.step().
TrainBegin ==
    /\ pc = "train_begin"
    /\ log_iter' = LogIter(train_len, print_freq)
    /\ lr_scheduler' = scheduler_step(lr_scheduler)
    /\ optimizer' = [optimizer EXCEPT !.lr = get_lr(scheduler_step(lr_scheduler))]
    /\ idx' = 0
    /\ train_emits' = 0
    /\ pc' = "train_batch"
    /\ UNCHANGED <<inputs, resume, files, error, epoch, start_epoch, best_loss,
                   checkpoint, model, valid_loss, run, losses, latest_writes,
                   best_overwritten, valid_emits, train_steps, fresh_lr>>

\* train, lines 136-192: one batch.  The optimizer step comes first; then
\* idx % log_iter raises ZeroDivisionError when log_iter is 0.
TrainBatch ==
    /\ pc = "train_batch"
    /\ idx < train_len
    /\ model' = [model EXCEPT !.weights = @ + 1]
    /\ optimizer' = [optimizer EXCEPT !.momentum_buffer = @ + 1]
    /\ fresh_lr' = IF checkpoint = <<>> /\ Len(fresh_lr) = epoch
                   THEN Append(fresh_lr, optimizer.lr) ELSE fresh_lr
    /\ IF log_iter = 0
       THEN /\ pc' = "error" /\ error' = "ZeroDivisionError"
            /\ UNCHANGED <<idx, train_emits, train_steps>>
       ELSE /\ error' = error
            /\ IF idx % log_iter = 0
               THEN /\ train_emits' = train_emits + 1
                    /\ train_steps' = Append(train_steps,
                                             LogStep(epoch, print_freq, idx, log_iter))
               ELSE UNCHANGED <<train_emits, train_steps>>
            /\ idx' = idx + 1
            /\ pc' = IF idx + 1 < train_len THEN "train_batch" ELSE "train_end"
    /\ UNCHANGED <<inputs, resume, files, epoch, start_epoch, best_loss, checkpoint,
                   lr_scheduler, valid_loss, log_iter, run, losses, latest_writes,
                   best_overwritten, valid_emits>>

\* train, lines 194-197: print and return the averages.
TrainEnd ==
    /\ pc = "train_end"
    /\ pc' = "valid_begin"
    /\ UNCHANGED <<inputs, resume, files, error, epoch, start_epoch, best_loss,
                   checkpoint, model, optimizer, lr_scheduler, valid_loss, idx,
                   log_iter, run, history, fresh_lr>>

\* validation, lines 214-220: the trackers, log_iter and model.eval().
ValidBegin ==
    /\ pc = "valid_begin"
    /\ log_iter' = LogIter(valid_len, print_freq)
    /\ model' = [model EXCEPT !.training = FALSE]
    /\ idx' = 0
    /\ valid_emits' = 0
    /\ pc' = "valid_batch"
    /\ UNCHANGED <<inputs, resume, files, error, epoch, start_epoch, best_loss,
                   checkpoint, optimizer, lr_scheduler, valid_loss, run, losses,
                   latest_writes, best_overwritten, train_emits, train_steps, fresh_lr>>

\* validation, lines 223-266: one batch, forward only.
ValidBatch ==
    /\ pc = "valid_batch"
    /\ idx < valid_len
    /\ IF log_iter = 0
       THEN /\ pc' = "error" /\ error' = "ZeroDivisionError"
            /\ UNCHANGED <<idx, valid_emits>>
       ELSE /\ error' = error
            /\ valid_emits' = IF idx % log_iter = 0 THEN valid_emits + 1 ELSE valid_emits
            /\ idx' = idx + 1
            /\ pc' = IF idx + 1 < valid_len THEN "valid_batch" ELSE "valid_end"
    /\ UNCHANGED <<inputs, resume, files, epoch, start_epoch, best_loss, checkpoint,
                   model, optimizer, lr_scheduler, valid_loss, log_iter, run, losses,
                   latest_writes, best_overwritten, train_emits, train_steps, fresh_lr>>

\* validation, lines 268-271: return the epoch's average validation loss.
ValidEnd ==
    /\ pc = "valid_end"
    /\ \E loss \in criterion :
          /\ valid_loss' = loss
          /\ losses' = Append(losses, loss)
    /\ pc' = "save"
    /\ UNCHANGED <<inputs, resume, files, error, epoch, start_epoch, best_loss,
                   checkpoint, model, optimizer, lr_scheduler, idx, log_iter, run,
                   latest_writes, best_overwritten, train_emits, valid_emits,
                   train_steps, fresh_lr>>

\* main, lines 96-108, with save_checkpoint, lines 275-284: torch.save to the
\* rolling file, copied to the best file when is_best; then the next epoch.
SaveCheckpoint ==
    /\ pc = "save"
    /\ LET is_best == IsBest(valid_loss, best_loss)
           new_best == NewBestLoss(valid_loss, best_loss)
           state == [epoch |-> epoch, arch |-> Arch, state_dict |-> model.weights,
                     best_loss |-> new_best, optimizer |-> optimizer]
       IN /\ best_loss' = new_best
          /\ files' = [latest |-> torch_save(state),
                       best   |-> IF is_best THEN torch_save(state) ELSE files.best]
          /\ best_overwritten' = is_best
    /\ latest_writes' = latest_writes + 1
    /\ epoch' = epoch + 1
    /\ pc' = "loop"
    /\ UNCHANGED <<inputs, resume, error, start_epoch, checkpoint, model, optimizer,
                   lr_scheduler, valid_loss, idx, log_iter, run, losses, train_emits,
                   valid_emits, train_steps, fresh_lr>>

Running == pc \notin {"done", "error", "killed"}

\* The process is killed from outside between two epochs; only the disk
\* survives it.
Interrupt ==
    /\ pc = "loop"
    /\ pc' = "killed"
    /\ UNCHANGED <<inputs, resume, files, error, epoch, start_epoch, best_loss,
                   checkpoint, model, optimizer, lr_scheduler, valid_loss, idx,
                   log_iter, run, history, fresh_lr>>

\* The program is started again on the same disk and data, with a --resume
\* argument of the user's choice: main, lines 33-52, anew.
Restart ==
    /\ ~Running
    /\ run < MaxRuns
    /\ UNCHANGED <<inputs, files, fresh_lr>>
    /\ run' = run + 1
    /\ resume' \in ResumeArgs
    /\ pc' = "resume"
    /\ error' = ""
    /\ epoch' = InitStartEpoch
    /\ start_epoch' = InitStartEpoch
    /\ best_loss' = InitBestLoss
    /\ checkpoint' = <<>>
    /\ model' = UNet
    /\ optimizer' = SGD(learning_rate)
    /\ lr_scheduler' = StepLR(SGD(learning_rate))
    /\ valid_loss' = 0
    /\ idx' = 0
    /\ log_iter' = 0
    /\ losses' = <<>>
    /\ latest_writes' = 0
    /\ best_overwritten' = FALSE
    /\ train_emits' = 0
    /\ valid_emits' = 0
    /\ train_steps' = <<>>

Next ==
    \/ Resume
    \/ LoopHead
    \/ TrainBegin
    \/ TrainBatch
    \/ TrainEnd
    \/ ValidBegin
    \/ ValidBatch
    \/ ValidEnd
    \/ SaveCheckpoint
    \/ Interrupt
    \/ Restart

Spec == Init /\ [][Next]_vars
SpecLog == InitLog /\ [][Next]_vars
SpecLR == InitLR /\ [][Next]_vars

\* -------------------------------------------------------------- properties
Range(seq) == {seq[i] : i \in 1..Len(seq)}

\* The least element of a non-empty set of integers.
Least(S) == CHOOSE x \in S : \A y \in S : x <= y

\* The process loaded no checkpoint: a fresh run.
Fresh == checkpoint = <<>> /\ pc # "resume"

\* The best loss the epoch loop started with.
StartBest == IF checkpoint = <<>> THEN InitBestLoss ELSE checkpoint[1].best_loss

\* The position in `losses` of the earliest epoch attaining the minimum.
EarliestMin ==
    CHOOSE k \in 1..Len(losses) :
        /\ losses[k] = Least(Range(losses))
        /\ \A j \in 1..(k - 1) : losses[j] # losses[k]

\* The last completed epoch's loss is strictly below every earlier one.
LastBelowAllPrior ==
    \A j \in 1..(Len(losses) - 1) : losses[Len(losses)] < losses[j]

\* C1: in a fresh run, at the end of every epoch the best file was
\* overwritten exactly when the epoch's validation loss is strictly below the
\* loss of every prior epoch, and the best file holds the record of the
\* earliest epoch attaining the minimum loss so far.
C1_BestIsEarliestMinimum ==
    (Fresh /\ pc = "loop" /\ losses # <<>>) =>
        /\ best_overwritten <=> LastBelowAllPrior
        /\ files.best # <<>>
        /\ torch_load(files.best).epoch = EarliestMin - 1
        /\ torch_load(files.best).best_loss = Least(Range(losses))

\* The statement of C1 restricted to losses below the starting best loss 999.
BestIsEarliestMinimumBelowInitBest ==
    (\A k \in 1..Len(losses) : losses[k] < InitBestLoss) => C1_BestIsEarliestMinimum

\* C2: the latest file is written exactly once per executed epoch, after
\* the epoch's training and validation passes: the number of writes is the
\* number of completed epochs at every point of the run, and after epoch e
\* the file's record has epoch = e and best_loss = the minimum of the starting
\* best loss and the validation losses of the epochs executed so far.
C2_LatestWrittenOncePerEpoch ==
    /\ latest_writes = epoch - start_epoch
    /\ latest_writes = Len(losses) - (IF pc = "save" THEN 1 ELSE 0)
    /\ (pc = "loop" /\ losses # <<>>) =>
          LET r == torch_load(files.latest) IN
          /\ r.epoch = epoch - 1
          /\ r.epoch = start_epoch + Len(losses) - 1
          /\ r.best_loss = Least({StartBest} \cup Range(losses))

\* The latest file was overwritten by a second epoch whose loss is not the
\* minimum.
C2_Witness ==
    /\ pc = "loop"
    /\ Len(losses) = 2
    /\ losses[2] > losses[1]
    /\ losses[1] < StartBest
    /\ torch_load(files.latest).epoch = start_epoch + 1
    /\ torch_load(files.latest).best_loss = losses[1]

\* C3: resuming from an existing checkpoint restores epoch counter, best
\* loss, model weights and optimizer state to the values of the saved record,
\* a saved record read back holds the run state it was saved from, and the
\* first epoch executed after the resume is the loaded epoch itself.
C3_ResumeRestoresRecord ==
    /\ (checkpoint # <<>> /\ pc = "loop" /\ latest_writes = 0) =>
          /\ checkpoint[1] = torch_load(FileAt(resume))
          /\ epoch = checkpoint[1].epoch
          /\ start_epoch = checkpoint[1].epoch
          /\ best_loss = checkpoint[1].best_loss
          /\ model.weights = checkpoint[1].state_dict
          /\ optimizer = checkpoint[1].optimizer
    /\ (checkpoint # <<>> /\ latest_writes = 0 /\ Running) =>
          epoch = checkpoint[1].epoch
    /\ (pc = "loop" /\ latest_writes > 0) =>
          LET r == torch_load(files.latest) IN
          /\ r.epoch = epoch - 1
          /\ r.arch = Arch
          /\ r.best_loss = best_loss
          /\ r.state_dict = model.weights
          /\ r.optimizer = optimizer

\* A resumed run is training the epoch of its checkpoint again, with the
\* weights and optimizer state of the record.
C3_Witness ==
    /\ checkpoint # <<>>
    /\ pc = "train_batch"
    /\ latest_writes = 0
    /\ epoch = checkpoint[1].epoch
    /\ epoch > 0
    /\ model.weights = checkpoint[1].state_dict
    /\ model.weights > 0

\* C4: when a resume path is given but no file exists at it, the run does
\* not fail and proceeds as a fresh run: the epoch loop starts at epoch 0 with
\* the initial best loss and untouched model and optimizer.
C4_MissingResumeIsNotFatal ==
    (resume # "" /\ Fresh) =>
        /\ error # "NameError"
        /\ (pc = "loop" /\ latest_writes = 0) =>
              /\ epoch = InitStartEpoch
              /\ best_loss = InitBestLoss
              /\ model = UNet
              /\ optimizer = SGD(learning_rate)

C6_ResumedRunKeepsSchedule ==
    (checkpoint # <<>> /\ pc = "train_batch" /\ epoch < Len(fresh_lr)) =>
        optimizer.lr = fresh_lr[epoch + 1]

\* C7: with 2 training batches per epoch, 1 epoch and the default print
\* frequency of 4, a fresh run raises no error, and at its end it has written
\* the latest checkpoint exactly once.
C7_SmokeRunCompletes ==
    (train_len = 2 /\ print_freq = DefaultPrintFreq /\ num_epochs = 1 /\ resume = "") =>
        /\ error = ""
        /\ pc = "done" => latest_writes = 1

\* C8: the model is in evaluation mode during every validation pass and
\* in training mode during every training pass, in every epoch.
C8_ModeMatchesPass ==
    /\ pc = "valid_batch" => ~model.training
    /\ pc = "train_batch" => model.training

\* C9: for every loader length L >= 1 and print frequency N >= 1, a
\* training pass and a validation pass each emit their scalar summaries
\* exactly N times.
C9_EmitsPrintFreqTimes ==
    /\ error # "ZeroDivisionError"
    /\ pc = "train_end" => train_emits = print_freq
    /\ pc = "valid_end" => valid_emits = print_freq

\* C10: for L >= N >= 1, the steps under which the training logger
\* receives summaries within one run are strictly increasing in emission
\* order, across batches and epochs.
C10_TrainStepsIncrease ==
    (train_len >= print_freq) =>
        \A i \in 1..Len(train_steps) : \A j \in 1..Len(train_steps) :
            i < j => train_steps[i] < train_steps[j]

====
